---- MODULE Spec2Model ----
(***************************************************************************)
(* Model of main.py of global-entry-bot: one run of main(), which checks   *)
(* the fixed LOCATIONS for open appointment slots, fetches the directory   *)
(* of locations and then scans it for locations near HOME_ZIP.             *)
(*                                                                         *)
(* The external services are inputs: every action draws the responses of   *)
(* the calls it makes (a connection failure, a list of appointment         *)
(* records, a directory, a distance response, the outcome of a post) from  *)
(* small sets.  Strings that the code slices (the postal code) are tuples  *)
(* of characters; a timestamp string in TTP_TIME_FORMAT is the record of   *)
(* its fields.                                                             *)
(***************************************************************************)
EXTENDS Integers, Sequences, FiniteSets, TLC

VARIABLES
    pc,             \* where main() is: "fixed", "dir", "scan", "done", "exited", "raised"
    status,         \* the process exit status, Running until the process ends
    test_mode,      \* args.test
    i,              \* position of the first loop in LOCATIONS (1-based)
    location_name,  \* main()'s variable location_name (it outlives the first loop)
    dirResp,        \* the directory service's response, once fetched (history)
    locations,      \* main()'s variable locations
    j,              \* position of the second loop in locations (1-based)
    trace,          \* every network call, print and post of the run, in order (history)
    last,           \* the check_for_openings call of the latest step, if any (history)
    lastDist,       \* the is_location_nearby call of the latest step, if any (history)
    nearbyLog       \* the ids of the locations logged as '*Nearby airport', in order

vars == <<pc, status, test_mode, i, location_name, dirResp, locations, j,
          trace, last, lastDist, nearbyLog>>

-----------------------------------------------------------------------------
(* Program constants *)

LOCATIONS == << [name |-> "PIA", code |-> 11002], [name |-> "STL", code |-> 12021] >>

HOME_ZIP == 63021

MAX_DISTANCE_MILES == 250

DuplicateStatusCode == 187

ZipLen == 5

(* Bounds of the model *)

MaxRecords == 2

MaxDir == 2

Running == 0 - 1

-----------------------------------------------------------------------------
(* Inputs *)

\* "2024-07-01T09:00" and the earlier "2024-06-15T13:30"
July1 == [Y |-> 2024, m |-> 7, d |-> 1,  H |-> 9,  M |-> 0]

June15 == [Y |-> 2024, m |-> 6, d |-> 15, H |-> 13, M |-> 30]

\* Appointment records: 'active' and 'timestamp'.
Records ==
    { [active |-> 0, timestamp |-> July1],
      [active |-> 1, timestamp |-> July1],
      [active |-> 2, timestamp |-> June15] }

SeqsUpTo(S, n) == UNION { [1..k -> S] : k \in 0..n }

SchedulerResponses == SeqsUpTo(Records, MaxRecords)

\* What api.PostUpdate does: it succeeds, or raises TwitterError whose
\* message is a list of error entries (here: their codes).
PostOutcomes ==
    { [raised |-> FALSE, message |-> <<>>],
      [raised |-> TRUE,  message |-> <<187>>],
      [raised |-> TRUE,  message |-> <<32>>],
      [raised |-> TRUE,  message |-> <<187, 187>>],
      [raised |-> TRUE,  message |-> <<32, 187>>] }

PostSucceeds == [raised |-> FALSE, message |-> <<>>]

\* What the services do during one call of check_for_openings: the
\* connection to the scheduler fails, or it answers with a list of records;
\* the posting service, which is only called outside test mode and for an
\* active record, succeeds or raises.
CheckInputs(test) ==
    { [connected |-> FALSE, results |-> <<>>, post |-> PostSucceeds] }
    \cup [connected : {TRUE}, results : SchedulerResponses, post : {PostSucceeds}]
    \cup IF test THEN {}
         ELSE [connected : {TRUE},
               results : { r \in SchedulerResponses :
                             \E k \in 1..Len(r) : r[k].active > 0 },
               post : PostOutcomes]

\* A JSON string or null, as Python reads it: a str or None.
PyStr(s) == [tag |-> "str", val |-> s]

PyNone == [tag |-> "None", val |-> ""]

DirectoryEntries ==
    { [countryCode |-> "US", shortName |-> PyStr("MCI"), name |-> "Kansas City Enrollment Center",
       id |-> 5001, postalCode |-> <<"6","4","1","5","3">>],
      [countryCode |-> "US", shortName |-> PyStr(""), name |-> "Memphis Intl Airport",
       id |-> 5002, postalCode |-> <<"3","8","1","1","8","1","2","3","4">>],
      [countryCode |-> "CA", shortName |-> PyStr("YYZ"), name |-> "Toronto Enrollment Center",
       id |-> 5003, postalCode |-> <<"L","5","P","1","B","2">>],
      [countryCode |-> "US", shortName |-> PyNone, name |-> "Guam International Airport",
       id |-> 5004, postalCode |-> <<"9","6","9","1">>] }

DirectoryResponses == SeqsUpTo(DirectoryEntries, MaxDir)

\* The distance service's JSON object: with a "distance" key or without.
DistanceResponses ==
    { [hasDistance |-> FALSE, distance |-> 0] }
    \cup [hasDistance : {TRUE}, distance : {0, 150, 250, 300}]

-----------------------------------------------------------------------------
(* Values and events *)

Event(kind, arg, ok) == [kind |-> kind, arg |-> arg, ok |-> ok]

NoCall == [made |-> FALSE, index |-> 0, name |-> "", code |-> 0, connected |-> FALSE,
           results |-> <<>>, post |-> PostSucceeds,
           events |-> <<>>, outcome |-> "none"]

NoDist == [made |-> FALSE, connected |-> FALSE,
           response |-> [hasDistance |-> FALSE, distance |-> 0],
           nearby |-> FALSE, returned |-> "None"]

-----------------------------------------------------------------------------
(* tweet *)

IsDuplicateAnyLength(e) == Len(e) >= 1 /\ e[1] = DuplicateStatusCode

\* The test of the except clause: exactly one error entry, with code 187.
IsDuplicate(e) == Len(e) = 1 /\ e[1] = DuplicateStatusCode

tweetWithoutHandler(post) == IF post.raised THEN "raised" ELSE "returned"

\* tweet(message) with PostUpdate behaving as `post`: "returned" or "raised".
tweet(post) ==
    IF ~post.raised THEN "returned"
    ELSE IF IsDuplicate(post.message) THEN "returned"
    ELSE "raised"

-----------------------------------------------------------------------------
(* check_for_openings *)

RECURSIVE LastActiveFrom(_, _)
LastActiveFrom(results, k) ==
    IF k = 0 THEN 0
    ELSE IF results[k].active > 0 THEN k
    ELSE LastActiveFrom(results, k - 1)

LastActive(results) == LastActiveFrom(results, Len(results))

RECURSIVE FirstNonNegativeFrom(_, _)
FirstNonNegativeFrom(results, k) ==
    IF k > Len(results) THEN 0
    ELSE IF results[k].active >= 0 THEN k
    ELSE FirstNonNegativeFrom(results, k + 1)

FirstNonNegative(results) == FirstNonNegativeFrom(results, 1)

RECURSIVE FirstActiveFrom(_, _)
\* The for loop over results from position k: the position at which the
\* loop returns, 0 when it runs to the end.
FirstActiveFrom(results, k) ==
    IF k > Len(results) THEN 0
    ELSE IF results[k].active > 0 THEN k
    ELSE FirstActiveFrom(results, k + 1)

FirstActive(results) == FirstActiveFrom(results, 1)

\* Days from 1970-01-01 to the date (proleptic Gregorian calendar).
DaysFromCivil(Y, m, d) ==
    LET y   == IF m <= 2 THEN Y - 1 ELSE Y
        era == y \div 400
        yoe == y - era * 400
        mp  == (m + 9) % 12
        doy == (153 * mp + 2) \div 5 + d - 1
        doe == yoe * 365 + yoe \div 4 - yoe \div 100 + doy
    IN  era * 146097 + doe - 719468

WeekdayNames == <<"Monday", "Tuesday", "Wednesday", "Thursday", "Friday",
                  "Saturday", "Sunday">>

MonthNames == <<"January", "February", "March", "April", "May", "June", "July",
                "August", "September", "October", "November", "December">>

\* timestamp.strftime(MESSAGE_TIME_FORMAT): the fields of
\* '%A, %B %d, %Y at %I:%M %p' in order.
FormatTime(ts) ==
    << WeekdayNames[((DaysFromCivil(ts.Y, ts.m, ts.d) + 3) % 7) + 1],
       MonthNames[ts.m], ts.d, ts.Y,
       IF ts.H % 12 = 0 THEN 12 ELSE ts.H % 12,
       ts.M,
       IF ts.H < 12 THEN "AM" ELSE "PM" >>

\* NOTIF_MESSAGE.format(location=..., date=...)
FormatMessage(name, ts) == [location |-> name, date |-> FormatTime(ts)]

UsePrintInverted(test) == ~test

\* The branch `if test_mode:`: TRUE prints the message, FALSE tweets it.
UsePrint(test) == test

\* One call check_for_openings(name, code, test): the events it produces and
\* how it ends ("returned", "exit" for sys.exit(1), "raised" for an
\* exception that leaves the function).
check_for_openings(name, code, test, connected, results, post) ==
    IF ~connected
    THEN [events |-> << Event("sched", code, FALSE) >>, outcome |-> "exit"]
    ELSE LET k == FirstActive(results) IN
         IF k = 0
         THEN [events |-> << Event("sched", code, TRUE) >>, outcome |-> "returned"]
         ELSE LET message == FormatMessage(name, results[k].timestamp) IN
              IF UsePrint(test)
              THEN [events  |-> << Event("sched", code, TRUE),
                                   Event("print", message, TRUE) >>,
                    outcome |-> "returned"]
              ELSE [events  |-> << Event("sched", code, TRUE),
                                   Event("post", message, ~post.raised) >>,
                    outcome |-> tweet(post)]

-----------------------------------------------------------------------------
(* calculate_distance, is_location_nearby *)

\* A Python value returned by calculate_distance: a number or False.
PyNumber(n) == [tag |-> "number", val |-> n]

PyFalse == [tag |-> "False", val |-> 0]

\* Python's truth value of such a value: False and 0 are false.
Truthy(v) == v.tag = "number" /\ v.val # 0

\* calculate_distance on a response that arrived.
calculate_distance(response, max_distance) ==
    IF response.hasDistance
    THEN IF response.distance < max_distance
         THEN PyNumber(response.distance)
         ELSE PyFalse
    ELSE PyFalse

\* is_location_nearby on a response that arrived: whether it takes the
\* branch `if distance:` (the location is logged as nearby), and the value
\* it returns to main(): it has no return statement.
is_location_nearby(response) ==
    [nearby   |-> Truthy(calculate_distance(response, MAX_DISTANCE_MILES)),
     returned |-> "None"]

\* Python's truth value of what is_location_nearby returns.
TruthyReturn(v) == v # "None"

-----------------------------------------------------------------------------
(* get_full_location_list *)

Min(a, b) == IF a < b THEN a ELSE b

FirstFour(postalCode) == SubSeq(postalCode, 1, Min(ZipLen - 1, Len(postalCode)))

\* result['postalCode'][:5]
FirstFive(postalCode) == SubSeq(postalCode, 1, Min(ZipLen, Len(postalCode)))

\* name = result['shortName']; if not name: name = result['name']
DisplayName(result) ==
    IF result.shortName.tag = "None" \/ result.shortName.val = ""
    THEN result.name
    ELSE result.shortName.val

RECURSIVE LocationsFrom(_, _, _)
\* The for loop over results from position k, with the list built so far.
LocationsFrom(results, k, acc) ==
    IF k > Len(results) THEN acc
    ELSE IF results[k].countryCode = "US"
         THEN LocationsFrom(results, k + 1,
                  Append(acc, << results[k].id, DisplayName(results[k]),
                                 FirstFive(results[k].postalCode) >>))
         ELSE LocationsFrom(results, k + 1, acc)

get_full_location_list(results) == LocationsFrom(results, 1, <<>>)

-----------------------------------------------------------------------------
(* main *)

FixedLoopDoneEarly(k) == k > 1

\* The first for loop is over once every entry of LOCATIONS was taken.
FixedLoopDone(k) == k > Len(LOCATIONS)

ConnectionErrorLogged(cont) == [pc |-> cont, status |-> Running]

\* The handlers `except requests.ConnectionError`: log, then sys.exit(1).
\* cont is the point after the try statement, which they never reach.
ConnectionErrorExit(cont) == [pc |-> "exited", status |-> 1]

\* Where main() is after a call that ended with `outcome`; cont is the
\* point after the call.  An exception nobody catches ends the process.
After(outcome, cont) ==
    IF outcome = "exit" THEN ConnectionErrorExit(cont)
    ELSE IF outcome = "raised" THEN [pc |-> "raised", status |-> 1]
    ELSE [pc |-> cont, status |-> Running]

CallRecord(index, name, code, connected, results, post, r) ==
    [made |-> TRUE, index |-> index, name |-> name, code |-> code,
     connected |-> connected, results |-> results, post |-> post,
     events |-> r.events, outcome |-> r.outcome]

Init ==
    /\ pc = "fixed"
    /\ status = Running
    /\ test_mode \in BOOLEAN
    /\ i = 1
    /\ location_name = ""
    /\ dirResp = <<>>
    /\ locations = <<>>
    /\ j = 1
    /\ trace = <<>>
    /\ last = NoCall
    /\ lastDist = NoDist
    /\ nearbyLog = <<>>

\* One iteration of `for location_name, location_code in LOCATIONS`.
FixedStep ==
    /\ pc = "fixed"
    /\ ~FixedLoopDone(i)
    /\ \E svc \in CheckInputs(test_mode) :
         LET loc == LOCATIONS[i]
             r   == check_for_openings(loc.name, loc.code, test_mode,
                                       svc.connected, svc.results, svc.post)
             end == After(r.outcome, "fixed")
         IN  /\ location_name' = loc.name
             /\ trace' = trace \o r.events
             /\ last' = CallRecord(i, loc.name, loc.code, svc.connected,
                                   svc.results, svc.post, r)
             /\ i' = i + 1
             /\ pc' = end.pc
             /\ status' = end.status
    /\ lastDist' = NoDist
    /\ UNCHANGED <<test_mode, dirResp, locations, j, nearbyLog>>

\* locations = get_full_location_list(), after the first loop.
FetchDirectory ==
    /\ pc = "fixed"
    /\ FixedLoopDone(i)
    /\ \E connected \in BOOLEAN, results \in DirectoryResponses :
         LET end == IF connected THEN After("returned", "scan")
                                 ELSE After("exit", "scan")
         IN  /\ trace' = Append(trace, Event("dir", <<>>, connected))
             /\ dirResp' = IF connected THEN results ELSE <<>>
             /\ locations' = IF connected THEN get_full_location_list(results)
                                          ELSE <<>>
             /\ pc' = end.pc
             /\ status' = end.status
    /\ last' = NoCall
    /\ lastDist' = NoDist
    /\ UNCHANGED <<test_mode, i, location_name, j, nearbyLog>>

\* One iteration of `for (location_id, name, zipcode) in locations`.
ScanStep ==
    /\ pc = "scan"
    /\ j <= Len(locations)
    /\ \E connected \in BOOLEAN, response \in DistanceResponses :
         LET loc   == locations[j]
             query == Event("dist", [zip1 |-> HOME_ZIP, zip2 |-> loc[3]], connected)
         IN  IF ~connected
             THEN LET end == After("exit", "scan")
                  IN  /\ trace' = Append(trace, query)
                      /\ lastDist' = [NoDist EXCEPT !.made = TRUE]
                      /\ last' = NoCall
                      /\ nearbyLog' = nearbyLog
                      /\ pc' = end.pc
                      /\ status' = end.status
             ELSE LET n == is_location_nearby(response)
                  IN  /\ lastDist' = [made |-> TRUE, connected |-> TRUE,
                                      response |-> response, nearby |-> n.nearby,
                                      returned |-> n.returned]
                      /\ nearbyLog' = IF n.nearby THEN Append(nearbyLog, loc[1]) ELSE nearbyLog
                      /\ IF TruthyReturn(n.returned)
                         THEN \E svc \in CheckInputs(test_mode) :
                                LET r   == check_for_openings(location_name, loc[1],
                                               test_mode, svc.connected, svc.results,
                                               svc.post)
                                    end == After(r.outcome, "scan")
                                IN  /\ trace' = Append(trace, query) \o r.events
                                    /\ last' = CallRecord(j, location_name, loc[1],
                                                   svc.connected, svc.results,
                                                   svc.post, r)
                                    /\ pc' = end.pc
                                    /\ status' = end.status
                         ELSE /\ trace' = Append(trace, query)
                              /\ last' = NoCall
                              /\ pc' = "scan"
                              /\ status' = Running
    /\ j' = j + 1
    /\ UNCHANGED <<test_mode, i, location_name, dirResp, locations>>

\* The second loop is over: main() returns and the process ends normally.
Finish ==
    /\ pc = "scan"
    /\ j > Len(locations)
    /\ pc' = "done"
    /\ status' = 0
    /\ last' = NoCall
    /\ lastDist' = NoDist
    /\ UNCHANGED <<test_mode, i, location_name, dirResp, locations, j, trace, nearbyLog>>

Next == FixedStep \/ FetchDirectory \/ ScanStep \/ Finish

Spec == Init /\ [][Next]_vars

\* The process is scheduled until it ends: every step that can be taken is.
FairSpec == Spec /\ WF_vars(Next)

Terminated == pc \in {"done", "exited", "raised"}

-----------------------------------------------------------------------------
(* Reading the histories *)

OfKind(events, kinds) == SelectSeq(events, LAMBDA e : e.kind \in kinds)

\* The messages a sequence of events announces, printed or posted.
Messages(events) == OfKind(events, {"print", "post"})

ReadKinds == {"sched", "dir", "dist"}

ActivePositions(results) == { k \in 1..Len(results) : results[k].active > 0 }

Least(S) == CHOOSE x \in S : \A y \in S : x <= y

Codes(events) == [k \in 1..Len(events) |-> events[k].arg]

FixedCodes == [k \in 1..Len(LOCATIONS) |-> LOCATIONS[k].code]

IsPrefix(s, t) == Len(s) <= Len(t) /\ \A k \in 1..Len(s) : s[k] = t[k]

USEntries == SelectSeq(dirResp, LAMBDA r : r.countryCode = "US")

\* The latest step made a check_for_openings call whose request was answered.
Answered == last.made /\ last.connected

\* A step after which main() goes on with the next location.
GoesOn == pc \in {"fixed", "scan"} /\ status = Running

-----------------------------------------------------------------------------
(* C1: a check_for_openings call announces the first record, in the order
   the scheduler returned them, whose active-count is > 0, and nothing else:
   at most one message per call, whatever the later records are. *)
C1_FirstActiveAnnounced ==
    Answered =>
        LET out == Messages(last.events)
            act == ActivePositions(last.results)
        IN  /\ Len(out) <= 1
            /\ act # {} =>
                 /\ Len(out) = 1
                 /\ out[1].arg = FormatMessage(last.name,
                                     last.results[Least(act)].timestamp)

\* A call whose response holds two active records, the later one with the
\* earlier timestamp, announced one message.
C1_Witness ==
    /\ Answered
    /\ Len(last.results) >= 2
    /\ last.results[1] = [active |-> 1, timestamp |-> July1]
    /\ last.results[2] = [active |-> 2, timestamp |-> June15]
    /\ Len(Messages(last.events)) = 1

(* C2: a check_for_openings call whose response holds no record with
   active-count > 0 (the empty response included) produces no message, prints
   nothing and posts nothing; it returns and the run goes on with the next
   location. *)
C2_NoActiveNoMessage ==
    (Answered /\ ActivePositions(last.results) = {}) =>
        /\ last.events = << Event("sched", last.code, TRUE) >>
        /\ last.outcome = "returned"
        /\ GoesOn
        /\ i = last.index + 1

\* A call answered with two records, none active.
C2_Witness ==
    /\ Answered
    /\ Len(last.results) = 2
    /\ ActivePositions(last.results) = {}
    /\ last.index = 1
    /\ pc = "fixed"

(* C3: the test flag selects the one output channel of the run: in test mode
   nothing is ever posted and a found opening is printed; outside test mode
   nothing is ever printed and every check that finds an active record posts
   exactly once, the formatted message. *)
C3_OneChannel ==
    /\ test_mode => OfKind(trace, {"post"}) = <<>>
    /\ ~test_mode => OfKind(trace, {"print"}) = <<>>
    /\ (Answered /\ ActivePositions(last.results) # {}) =>
         LET out == Messages(last.events)
         IN  /\ Len(out) = 1
             /\ out[1].kind = IF test_mode THEN "print" ELSE "post"
             /\ out[1].arg = FormatMessage(last.name,
                                 last.results[Least(ActivePositions(last.results))].timestamp)

\* Outside test mode the check of PIA, answered with one active record of
\* 2024-07-01T09:00, posted 'PIA: Monday, July 01, 2024 at 09:00 AM'.
C3_Witness ==
    /\ ~test_mode
    /\ Answered
    /\ last.name = "PIA"
    /\ last.results = << [active |-> 1, timestamp |-> July1] >>
    /\ OfKind(trace, {"post"}) =
         << Event("post", [location |-> "PIA",
                           date |-> <<"Monday", "July", 1, 2024, 9, 0, "AM">>], TRUE) >>

(* C4: in the nearby scan, a location whose distance response carries a
   distance strictly below the maximum is handed to check_for_openings, with
   its identifier, in that iteration. *)
C4_NearbyIsChecked ==
    (/\ lastDist.made
     /\ lastDist.connected
     /\ lastDist.response.hasDistance
     /\ lastDist.response.distance < MAX_DISTANCE_MILES) =>
        /\ last.made
        /\ last.code = locations[j - 1][1]

(* C5: the fixed locations are checked in list order and all of them before
   the directory is fetched or any distance is queried; the distance queries
   follow the directory's order of US entries. *)
C5_Order ==
    LET dirPos  == { k \in 1..Len(trace) : trace[k].kind = "dir" }
        distPos == { k \in 1..Len(trace) : trace[k].kind = "dist" }
        schedBefore(n) == Codes(OfKind(SubSeq(trace, 1, n), {"sched"}))
        dists == OfKind(trace, {"dist"})
    IN  /\ Cardinality(dirPos) <= 1
        /\ IsPrefix(schedBefore(IF dirPos = {} THEN Len(trace) ELSE Least(dirPos)),
                    FixedCodes)
        /\ \A k \in dirPos \cup distPos :
              /\ IsPrefix(FixedCodes, schedBefore(k))
              /\ \A n \in 1..k : trace[n].kind = "sched" => trace[n].ok
        /\ \A k \in distPos : \E d \in dirPos : d < k
        /\ Len(dists) <= Len(USEntries)
        /\ \A n \in 1..Len(dists) :
              LET postal == USEntries[n].postalCode
              IN  dists[n].arg.zip2 = [c \in 1..Min(5, Len(postal)) |-> postal[c]]

\* A run that ended after querying the distances of two US entries with
\* different postal codes.
C5_Witness ==
    /\ pc = "done"
    /\ Len(OfKind(trace, {"dist"})) = 2
    /\ Len(USEntries) = 2
    /\ USEntries[1].id = 5002
    /\ USEntries[2].id = 5001

(* C6: a connection failure of the scheduler query, the directory fetch or a
   distance query is the last thing the run does: the process exits with
   status 1, and no call, print or post follows it. *)
C6_ConnectionFailureFatal ==
    /\ \A k \in 1..Len(trace) :
          (trace[k].kind \in ReadKinds /\ ~trace[k].ok) =>
              /\ k = Len(trace)
              /\ pc = "exited"
              /\ status = 1
    /\ pc = "exited" =>
          /\ trace # <<>>
          /\ trace[Len(trace)].kind \in ReadKinds
          /\ ~trace[Len(trace)].ok
    /\ (trace # <<>> /\ trace[Len(trace)].kind = "sched" /\ ~trace[Len(trace)].ok) =>
          OfKind(trace, {"dir", "dist"}) = <<>>

\* The scheduler query of the second fixed location failed to connect, after
\* the first location was checked.
C6_Witness ==
    /\ pc = "exited"
    /\ Len(OfKind(trace, {"sched"})) = 2
    /\ trace[Len(trace)] = Event("sched", 12021, FALSE)

(* C7: when the posting service raises an error, tweet returns normally if
   and only if the payload has exactly one entry and its code is 187; every
   other error leaves tweet and check_for_openings and ends the run there. *)
C7_OnlySingleDuplicateBenign ==
    /\ (last.made /\ \E k \in 1..Len(last.events) :
                        last.events[k].kind = "post" /\ ~last.events[k].ok) =>
          LET m == last.post.message
              benign == Len(m) = 1 /\ m[1] = 187
          IN  /\ last.outcome \in {"returned", "raised"}
              /\ last.outcome = "returned" <=> benign
              /\ last.outcome = "returned" => (GoesOn /\ i = last.index + 1)
              /\ last.outcome = "raised" =>
                    /\ pc = "raised"
                    /\ status \notin {0, Running}
                    /\ trace[Len(trace)].kind = "post"
    /\ pc = "raised" => (last.made /\ last.outcome = "raised")

\* An error with code 187 and two entries ended the run.
C7_Witness ==
    /\ last.made
    /\ last.post = [raised |-> TRUE, message |-> <<187, 187>>]
    /\ last.outcome = "raised"
    /\ pc = "raised"

(* C8: the distance sub-operation classifies a candidate as nearby if and
   only if the response holds a distance and it is strictly below the
   maximum, 0 included; otherwise it is not nearby, without an error, and the
   scan goes on. *)
C8_NearbyIffBelowMax ==
    (lastDist.made /\ lastDist.connected) =>
        /\ lastDist.nearby <=> (/\ lastDist.response.hasDistance
                                /\ lastDist.response.distance < MAX_DISTANCE_MILES)
        /\ GoesOn

(* C9: get_full_location_list returns exactly the US entries of the
   directory, in its order, each as (id, display name, zip): the short name
   unless it is empty, then the long name; the first 5 characters of the
   postal code. *)
C9_LocationList ==
    (\E k \in 1..Len(trace) : trace[k].kind = "dir" /\ trace[k].ok) =>
        /\ Len(locations) = Len(USEntries)
        /\ \A k \in 1..Len(USEntries) :
              LET r == USEntries[k]
              IN  locations[k] =
                    << r.id,
                       IF r.shortName \in {PyNone, PyStr("")} THEN r.name
                                                               ELSE r.shortName.val,
                       [c \in 1..Min(5, Len(r.postalCode)) |-> r.postalCode[c]] >>

\* A directory of a non-US entry and a US entry with an empty short name and
\* a 9-character postal code.
C9_Witness ==
    /\ Len(dirResp) = 2
    /\ dirResp[1].countryCode = "CA"
    /\ dirResp[2].shortName = PyStr("")
    /\ Len(dirResp[2].postalCode) = 9
    /\ locations = << <<5002, "Memphis Intl Airport", <<"3","8","1","1","8">> >> >>

\* What holds of a run that has ended: a normal end has made every call once;
\* an early end has a connection failure or a non-duplicate posting error as
\* its last event.
C10_Completion ==
    /\ pc = "done" =>
          /\ status = 0
          /\ Codes(OfKind(trace, {"sched"})) = FixedCodes
          /\ Len(OfKind(trace, {"dir"})) = 1
          /\ Len(OfKind(trace, {"dist"})) = Len(USEntries)
    /\ pc = "exited" =>
          (trace[Len(trace)].kind \in ReadKinds /\ ~trace[Len(trace)].ok)
    /\ pc = "raised" =>
          /\ trace[Len(trace)].kind = "post"
          /\ ~trace[Len(trace)].ok
          /\ ~(Len(last.post.message) = 1 /\ last.post.message[1] = 187)

(* C10: every run terminates; a run without connection failure and without
   non-duplicate posting error ends normally, having checked each fixed
   location once, fetched the directory once and queried one distance per US
   entry: no active slot, an unknown zip and a duplicate rejection stop
   nothing. *)
C10_TerminatesAndCompletes == <>Terminated /\ []C10_Completion

\* A run that ended normally after a duplicate rejection, a check without an
\* active record and a distance response without a distance.
C10_Witness ==
    /\ pc = "done"
    /\ \E k \in 1..Len(trace) : trace[k].kind = "post" /\ ~trace[k].ok
    /\ Len(OfKind(trace, {"sched"})) = 2
    /\ Len(Messages(trace)) = 1
    /\ Len(OfKind(trace, {"dist"})) = 2
    /\ nearbyLog = <<>>

====
